---- MODULE Spec2Model ----
(***************************************************************************)
(* Ultrasonic intruder detector (src/src/main.cpp): setup(), loop(),       *)
(* getDistanceCm().                                                        *)
(*                                                                         *)
(* Lengths are in thousandths of a centimetre.  getDistanceCm() returns    *)
(* (avg * 0.034) / 2 with avg a long, i.e. avg * 17 thousandths; the three *)
(* comparisons of loop() are against 0, 6 and 8 cm.  17 * avg is 0 only    *)
(* for avg = 0, and the nearest multiples of 17 to 6000 and 8000 are       *)
(* 5984/6001 and 7990/8007, so float rounding of the product cannot change *)
(* the outcome of any of these comparisons.                                *)
(***************************************************************************)
EXTENDS Integers, Sequences, FiniteSets, TLC

VARIABLES
    pc,          \* position of the single thread of control
    trigPin,     \* level of the trigger line
    buzzerPin,   \* level of the alert line
    intruder,    \* bool intruder (main.cpp:22)
    distanceCm,  \* float distanceCm (main.cpp:20), in thousandths of a cm
    sum,         \* long sum of getDistanceCm (main.cpp:26)
    i,           \* loop index of getDistanceCm (main.cpp:27)
    echoes,      \* history: raw echo durations returned by pulseIn this cycle
    events,      \* history: transition events emitted this cycle
    intruder0,   \* history: intruder at the start of this cycle
    buzzer0,     \* history: buzzerPin at the start of this cycle
    runD,        \* history: estimate of the current run of equal in-band estimates
    runLen,      \* history: length of that run (capped), 0 = no run
    runIntruder, \* history: intruder before the run
    runBuzzer,   \* history: buzzerPin before the run
    past,        \* history: <<estimate, intruder before>> of the last cycles
    trend,       \* history: summary of all finished cycles but the current one
    io,          \* history: calls and pin writes of this cycle, in order
    lastEvent    \* history: the last transition event emitted since startup

vars == <<pc, trigPin, buzzerPin, intruder, distanceCm, sum, i, echoes, events,
          intruder0, buzzer0, runD, runLen, runIntruder, runBuzzer, past,
          trend, io, lastEvent>>

hist == <<runD, runLen, runIntruder, runBuzzer, past, trend>>

----------------------------------------------------------------------------
(* Program constants                                                       *)

NUM_SAMPLES == 5         \* for (int i = 0; i < 5; i++) and sum / 5
PULSE_TIMEOUT == 30000   \* pulseIn(echoPin, HIGH, 30000)
SOUND_SPEED == 34        \* #define SOUND_SPEED 0.034, thousandths of cm per us
NEAR == 6000             \* distanceCm < 6
FAR == 8000              \* distanceCm > 8
LONG_MAX == 2147483647   \* largest value of the 32-bit long sum

(* Bounds of the model                                                     *)

MaxSmallEcho == 1        \* echo durations 1..MaxSmallEcho are drawn
MaxRun == 3              \* cap of the run-length history counter
MaxPast == 2             \* number of earlier cycles the history keeps
MaxChg == 2              \* cap of the counters of alert changes

\* Raw echo durations pulseIn may return: 0 on timeout, else 1..30000 us.
\* 353 us is the shortest echo whose own distance is >= 6 cm (353*17 = 6001),
\* 471 us the shortest whose own distance is > 8 cm (471*17 = 8007).
EchoValues == (0..MaxSmallEcho) \cup {352, 353, 471, PULSE_TIMEOUT}

\* Estimates fed to the detector step when it is exercised on its own.
DistanceInputs == {0, 17, 5000, 5999, 6000, 6001, 7000, 7999, 8000, 8001, 9000}

----------------------------------------------------------------------------
(* getDistanceCm                                                           *)

\* s + d for d > 0 as a 32-bit signed long holds it: past LONG_MAX the value
\* wraps to s + d - 2^32 (written so that no intermediate exceeds 32 bits)
AddLong(s, d) ==
    IF s > LONG_MAX - d THEN (s - LONG_MAX) + (d - LONG_MAX) - 2 ELSE s + d

\* variant: a timed-out sub-sample counted at the timeout value
Accumulate_TimeoutAsMax(s, d) == IF d > 0 THEN s + d ELSE s + PULSE_TIMEOUT

\* if (d > 0) sum += d;
Accumulate(s, d) == IF d > 0 THEN AddLong(s, d) ELSE s

\* variant: conversion applied to the sum, division last
DistanceOf_ConvertFirst(s) == (s * SOUND_SPEED) \div (2 * NUM_SAMPLES)

\* variant: the average rounded up
DistanceOf_CeilAverage(s) ==
    (((s + NUM_SAMPLES - 1) \div NUM_SAMPLES) * SOUND_SPEED) \div 2

\* long avg = sum / 5; return (avg * SOUND_SPEED) / 2;
DistanceOf(s) == ((s \div NUM_SAMPLES) * SOUND_SPEED) \div 2

\* getDistanceCm() as a function of the echoes its pulseIn calls return
RECURSIVE SumOf(_)
SumOf(seq) ==
    IF seq = <<>> THEN 0
    ELSE Accumulate(SumOf(SubSeq(seq, 1, Len(seq) - 1)), seq[Len(seq)])

GetDistanceCm(seq) == DistanceOf(SumOf(seq))

(* loop: the hysteresis step                                               *)

\* variant: "distanceCm > 0" left out of the first condition
EventOf_NoPositiveCheck(d, det) ==
    IF ~det /\ d < NEAR THEN "EnterDetected"
    ELSE IF det /\ d > FAR THEN "EnterClear"
    ELSE "NoChange"

\* variant: one threshold for both directions, no band
EventOf_SingleThreshold(d, det) ==
    IF ~det /\ d > 0 /\ d < NEAR THEN "EnterDetected"
    ELSE IF det /\ d > NEAR THEN "EnterClear"
    ELSE "NoChange"

\* variant: non-strict comparisons
EventOf_NonStrict(d, det) ==
    IF ~det /\ d > 0 /\ d <= NEAR THEN "EnterDetected"
    ELSE IF det /\ d >= FAR THEN "EnterClear"
    ELSE "NoChange"

\* variant: the far threshold used for detection too
EventOf_FarOnly(d, det) ==
    IF ~det /\ d > 0 /\ d < FAR THEN "EnterDetected"
    ELSE IF det /\ d > FAR THEN "EnterClear"
    ELSE "NoChange"

\* variant: a lost echo (estimate 0) taken as "area clear"
EventOf_ClearOnLoss(d, det) ==
    IF ~det /\ d > 0 /\ d < NEAR THEN "EnterDetected"
    ELSE IF det /\ (d > FAR \/ d = 0) THEN "EnterClear"
    ELSE "NoChange"

\* variant: the flag is not consulted, only the estimate
EventOf_NoStateCheck(d, det) ==
    IF d > 0 /\ d < NEAR THEN "EnterDetected"
    ELSE IF d > FAR THEN "EnterClear"
    ELSE "NoChange"

\* the two conditions of the if / else if
EventOf(d, det) ==
    IF ~det /\ d > 0 /\ d < NEAR THEN "EnterDetected"
    ELSE IF det /\ d > FAR THEN "EnterClear"
    ELSE "NoChange"

\* variant: the flag is never reset
NextIntruder_NoReset(ev, det) ==
    CASE ev = "EnterDetected" -> TRUE
      [] OTHER                -> det

\* variant: the flag is cleared whenever no detection is made
NextIntruder_ClearOnNoChange(ev, det) ==
    CASE ev = "EnterDetected" -> TRUE
      [] OTHER                -> FALSE

\* intruder = true; / intruder = false;
NextIntruder(ev, det) ==
    CASE ev = "EnterDetected" -> TRUE
      [] ev = "EnterClear"    -> FALSE
      [] OTHER                -> det

\* variant: the alert line is never driven HIGH
NextBuzzer_NeverHigh(ev, level) ==
    CASE ev = "EnterClear" -> "LOW"
      [] OTHER             -> level

\* variant: the alert line is never driven LOW by loop()
NextBuzzer_NeverLow(ev, level) ==
    CASE ev = "EnterDetected" -> "HIGH"
      [] OTHER                -> level

\* digitalWrite(buzzerPin, HIGH); / digitalWrite(buzzerPin, LOW);
NextBuzzer(ev, level) ==
    CASE ev = "EnterDetected" -> "HIGH"
      [] ev = "EnterClear"    -> "LOW"
      [] OTHER                -> level

\* the writes to buzzerPin made by the taken branch, as log entries
BuzzerWrites(ev) ==
    CASE ev = "EnterDetected" -> <<"buzzer:HIGH">>
      [] ev = "EnterClear"    -> <<"buzzer:LOW">>
      [] OTHER                -> <<>>

----------------------------------------------------------------------------
(* Summary of the finished cycles, built from what each cycle was observed *)
(* to do: its estimate d, the flag det0 it started with, the events evs it *)
(* emitted and the alert level before (b0) and after (b1).                 *)

NoTrend ==
    [sawNear |-> FALSE,   \* some estimate was in (0, 6)
     sawFar  |-> FALSE,   \* some estimate was above 8
     det     |-> FALSE,   \* some cycle emitted EnterDetected
     clr     |-> FALSE,   \* some cycle emitted EnterClear
     chgGe6  |-> 0,       \* alert changes since the last estimate below 6
     chgLe8  |-> 0,       \* alert changes since the last estimate above 8
     lossRun |-> 0,       \* length of the current run of estimates of 0
     lossDet |-> FALSE]   \* that run started in Detected

Bump(n, changed) == IF changed /\ n < MaxChg THEN n + 1 ELSE n

Fold(t, d, det0, evs, b0, b1) ==
    [sawNear |-> t.sawNear \/ (d > 0 /\ d < 6000),
     sawFar  |-> t.sawFar \/ d > 8000,
     det     |-> t.det \/ (\E k \in 1..Len(evs) : evs[k] = "EnterDetected"),
     clr     |-> t.clr \/ (\E k \in 1..Len(evs) : evs[k] = "EnterClear"),
     chgGe6  |-> IF d < 6000 THEN 0 ELSE Bump(t.chgGe6, b0 # b1),
     chgLe8  |-> IF d > 8000 THEN 0 ELSE Bump(t.chgLe8, b0 # b1),
     lossRun |-> IF d # 0 THEN 0
                 ELSE IF t.lossRun < MaxRun THEN t.lossRun + 1 ELSE t.lossRun,
     lossDet |-> IF d # 0 THEN FALSE
                 ELSE IF t.lossRun = 0 THEN det0 ELSE t.lossDet]

----------------------------------------------------------------------------
Init ==
    /\ pc = "setup"
    /\ trigPin = "Z"
    /\ buzzerPin = "Z"
    /\ intruder = FALSE
    /\ distanceCm = 0
    /\ sum = 0
    /\ i = 0
    /\ echoes = <<>>
    /\ events = <<>>
    /\ intruder0 = FALSE
    /\ buzzer0 = "Z"
    /\ runD = 0
    /\ runLen = 0
    /\ runIntruder = FALSE
    /\ runBuzzer = "LOW"
    /\ past = <<>>
    /\ trend = NoTrend
    /\ io = <<>>
    /\ lastEvent = "none"

\* variant: setup() without digitalWrite(buzzerPin, LOW)
Setup_NoWrite ==
    /\ pc = "setup"
    /\ pc' = "loop"
    /\ UNCHANGED <<trigPin, buzzerPin, intruder, distanceCm, sum, i, echoes,
                   events, intruder0, buzzer0>>
    /\ UNCHANGED hist
    /\ UNCHANGED <<io, lastEvent>>

\* setup(): pins configured, alert line driven LOW
Setup ==
    /\ pc = "setup"
    /\ buzzerPin' = "LOW"
    /\ pc' = "loop"
    /\ UNCHANGED <<trigPin, intruder, distanceCm, sum, i, echoes, events,
                   intruder0, buzzer0>>
    /\ UNCHANGED hist
    /\ UNCHANGED <<io, lastEvent>>

\* variant: sum kept across calls (declared static or global), never reset
LoopStart_NoReset ==
    /\ pc = "loop"
    /\ i' = 0
    /\ echoes' = <<>>
    /\ events' = <<>>
    /\ intruder0' = intruder
    /\ buzzer0' = buzzerPin
    /\ pc' = "trigLow"
    /\ UNCHANGED <<trigPin, buzzerPin, intruder, distanceCm, sum>>
    /\ UNCHANGED hist
    /\ io' = <<"getDistanceCm">>
    /\ UNCHANGED lastEvent

\* loop() entered, getDistanceCm() called: long sum = 0; int i = 0
LoopStart ==
    /\ pc = "loop"
    /\ sum' = 0
    /\ i' = 0
    /\ echoes' = <<>>
    /\ events' = <<>>
    /\ intruder0' = intruder
    /\ buzzer0' = buzzerPin
    /\ pc' = "trigLow"
    /\ UNCHANGED <<trigPin, buzzerPin, intruder, distanceCm>>
    /\ UNCHANGED hist
    /\ io' = <<"getDistanceCm">>
    /\ UNCHANGED lastEvent

\* digitalWrite(trigPin, LOW); delayMicroseconds(2);
TrigLow ==
    /\ pc = "trigLow"
    /\ trigPin' = "LOW"
    /\ pc' = "trigHigh"
    /\ UNCHANGED <<buzzerPin, intruder, distanceCm, sum, i, echoes, events,
                   intruder0, buzzer0>>
    /\ UNCHANGED hist
    /\ io' = Append(io, "trig:LOW")
    /\ UNCHANGED lastEvent

\* digitalWrite(trigPin, HIGH); delayMicroseconds(10);
TrigHigh ==
    /\ pc = "trigHigh"
    /\ trigPin' = "HIGH"
    /\ pc' = "trigLow2"
    /\ UNCHANGED <<buzzerPin, intruder, distanceCm, sum, i, echoes, events,
                   intruder0, buzzer0>>
    /\ UNCHANGED hist
    /\ io' = Append(io, "trig:HIGH")
    /\ UNCHANGED lastEvent

\* variant: the pulse is not ended before the echo is measured
TrigLow2_Missing ==
    /\ pc = "trigLow2"
    /\ pc' = "pulseIn"
    /\ UNCHANGED <<trigPin, buzzerPin, intruder, distanceCm, sum, i, echoes,
                   events, intruder0, buzzer0>>
    /\ UNCHANGED hist
    /\ UNCHANGED <<io, lastEvent>>

\* digitalWrite(trigPin, LOW);
TrigLow2 ==
    /\ pc = "trigLow2"
    /\ trigPin' = "LOW"
    /\ pc' = "pulseIn"
    /\ UNCHANGED <<buzzerPin, intruder, distanceCm, sum, i, echoes, events,
                   intruder0, buzzer0>>
    /\ UNCHANGED hist
    /\ io' = Append(io, "trig:LOW")
    /\ UNCHANGED lastEvent

\* long d = pulseIn(echoPin, HIGH, 30000); if (d > 0) sum += d; delay(10); i++
PulseIn ==
    /\ pc = "pulseIn"
    /\ \E d \in EchoValues :
          /\ echoes' = Append(echoes, d)
          /\ sum' = Accumulate(sum, d)
    /\ i' = i + 1
    /\ pc' = IF i + 1 < NUM_SAMPLES THEN "trigLow" ELSE "average"
    /\ UNCHANGED <<trigPin, buzzerPin, intruder, distanceCm, events,
                   intruder0, buzzer0>>
    /\ UNCHANGED hist
    /\ io' = Append(io, "pulseIn")
    /\ UNCHANGED lastEvent

\* long avg = sum / 5; return (avg * SOUND_SPEED) / 2;  distanceCm = <result>
Average ==
    /\ pc = "average"
    /\ distanceCm' = DistanceOf(sum)
    /\ pc' = "detect"
    /\ UNCHANGED <<trigPin, buzzerPin, intruder, sum, i, echoes, events,
                   intruder0, buzzer0>>
    /\ UNCHANGED hist
    /\ io' = Append(io, "return")
    /\ UNCHANGED lastEvent

\* the if / else if of loop()
Detect ==
    /\ pc = "detect"
    /\ LET ev == EventOf(distanceCm, intruder) IN
          /\ intruder' = NextIntruder(ev, intruder)
          /\ buzzerPin' = NextBuzzer(ev, buzzerPin)
          /\ events' = IF ev = "NoChange" THEN events ELSE Append(events, ev)
          /\ lastEvent' = IF ev = "NoChange" THEN lastEvent ELSE ev
          /\ io' = Append(io, "detect") \o BuzzerWrites(ev)
    /\ pc' = "sleep"
    /\ UNCHANGED <<trigPin, distanceCm, sum, i, echoes, intruder0, buzzer0>>
    /\ UNCHANGED hist

\* variant: the hysteresis step is run again on the old estimate, the
\* measurement having been left out of the repeated part
Sleep_ToDetect ==
    /\ pc = "sleep"
    /\ pc' = "detect"
    /\ UNCHANGED <<trigPin, buzzerPin, intruder, distanceCm, sum, i, echoes,
                   events, intruder0, buzzer0>>
    /\ UNCHANGED hist
    /\ UNCHANGED <<io, lastEvent>>

\* variant: the loop blocks for as long as the alarm is on
Sleep_BlockOnAlarm ==
    /\ pc = "sleep"
    /\ ~intruder
    /\ pc' = "loop"
    /\ UNCHANGED <<trigPin, buzzerPin, intruder, distanceCm, sum, i, echoes,
                   events, intruder0, buzzer0>>
    /\ UNCHANGED hist
    /\ UNCHANGED <<io, lastEvent>>

\* delay(500); loop() returns and is called again
Sleep ==
    /\ pc = "sleep"
    /\ pc' = "loop"
    /\ UNCHANGED <<trigPin, buzzerPin, intruder, distanceCm, sum, i, echoes,
                   events, intruder0, buzzer0>>
    /\ UNCHANGED hist
    /\ UNCHANGED <<io, lastEvent>>

Next ==
    \/ Setup
    \/ LoopStart
    \/ TrigLow
    \/ TrigHigh
    \/ TrigLow2
    \/ PulseIn
    \/ Average
    \/ Detect
    \/ Sleep

Spec == Init /\ [][Next]_vars

\* The program under fairness.  Every step of the single thread ends: the
\* delays are finite and pulseIn gives up after its 30000 us timeout, so the
\* thread always takes its next step.  Echoes are drawn from the three values
\* that between them give every outcome of a cycle (total loss, detection,
\* clearing, in-band), which keeps the behaviour graph small.
CoarseEchoValues == {0, 353, PULSE_TIMEOUT}

PulseInCoarse == PulseIn /\ echoes'[Len(echoes')] \in CoarseEchoValues

NextFair ==
    \/ Setup
    \/ LoopStart
    \/ TrigLow
    \/ TrigHigh
    \/ TrigLow2
    \/ PulseInCoarse
    \/ Average
    \/ Detect
    \/ Sleep

FairSpec == Init /\ [][NextFair]_vars /\ WF_vars(NextFair)

----------------------------------------------------------------------------
(* The hysteresis step on its own: distanceCm = getDistanceCm() with the   *)
(* returned estimate drawn from DistanceInputs instead of being computed   *)
(* from echoes.  The sampler cannot return exactly 5, 6, 7, 8 or 9 cm      *)
(* (none is a multiple of 0.017), so statements about those estimates are  *)
(* checked on the step itself.                                             *)

InBand(d) == d > NEAR /\ d < FAR

Feed ==
    /\ pc = "loop"
    /\ \E d \in DistanceInputs :
          /\ distanceCm' = d
          /\ IF InBand(d)
             THEN IF runLen > 0 /\ runD = d
                  THEN /\ runLen' = IF runLen < MaxRun THEN runLen + 1 ELSE runLen
                       /\ UNCHANGED <<runD, runIntruder, runBuzzer>>
                  ELSE /\ runLen' = 1
                       /\ runD' = d
                       /\ runIntruder' = intruder
                       /\ runBuzzer' = buzzerPin
             ELSE /\ runLen' = 0
                  /\ runD' = 0
                  /\ runIntruder' = FALSE
                  /\ runBuzzer' = "LOW"
    /\ past' = IF buzzer0 = "Z" THEN <<>>                \* "Z": no cycle yet
               ELSE LET p == Append(past, <<distanceCm, intruder0>>) IN
                    IF Len(p) > MaxPast THEN Tail(p) ELSE p
    /\ trend' = IF buzzer0 = "Z" THEN trend
                ELSE Fold(trend, distanceCm, intruder0, events, buzzer0, buzzerPin)
    /\ events' = <<>>
    /\ intruder0' = intruder
    /\ buzzer0' = buzzerPin
    /\ pc' = "detect"
    /\ io' = <<"getDistanceCm", "return">>
    /\ UNCHANGED <<trigPin, buzzerPin, intruder, sum, i, echoes, lastEvent>>

NextDet ==
    \/ Setup
    \/ Feed
    \/ Detect
    \/ Sleep

SpecDet == Init /\ [][NextDet]_vars

----------------------------------------------------------------------------
(* Vocabulary of the properties                                            *)

\* the hysteresis step of the current cycle has run
CycleDone == pc = "sleep"

\* getDistanceCm() of the current cycle has returned
Returned == pc \in {"detect", "sleep"} /\ Len(echoes) = NUM_SAMPLES

\* result of the step: the event emitted this cycle, or NoChange
Result == IF events = <<>> THEN "NoChange" ELSE events[Len(events)]

CountOf(ev, seq) == Cardinality({k \in 1..Len(seq) : seq[k] = ev})

\* sum of the positive durations of a sequence of echoes
RECURSIVE SumPositive(_)
SumPositive(seq) ==
    IF seq = <<>> THEN 0
    ELSE (IF Head(seq) > 0 THEN Head(seq) ELSE 0) + SumPositive(Tail(seq))

\* the previous cycle was fed d and started with intruder = det
PrevWas(d, det) == past # <<>> /\ past[Len(past)] = <<d, det>>

AllTimedOut(seq) == \A k \in 1..Len(seq) : seq[k] = 0

\* every valid echo of the sequence is, on its own, at 6 cm or farther
AllValidFar(seq) == \A k \in 1..Len(seq) : seq[k] > 0 => seq[k] * 17 >= 6000

----------------------------------------------------------------------------
\* C1: a cycle that starts in Clear with an estimate d, 0 < d < 6 cm, ends in
\* Detected, emits exactly one EnterDetected (and nothing else) and leaves the
\* alert line HIGH.
C1_EnterDetected ==
    (CycleDone /\ ~intruder0 /\ distanceCm > 0 /\ distanceCm < 6000)
        => /\ intruder
           /\ events = <<"EnterDetected">>
           /\ buzzerPin = "HIGH"

C1_Witness ==
    /\ CycleDone /\ ~intruder0 /\ distanceCm > 0 /\ distanceCm < 6000
    /\ Len(echoes) = NUM_SAMPLES /\ intruder

\* C2: a cycle that starts in Detected with an estimate d > 8 cm ends in Clear,
\* emits exactly one EnterClear (and nothing else) and leaves the alert line LOW.
C2_EnterClear ==
    (CycleDone /\ intruder0 /\ distanceCm > 8000)
        => /\ ~intruder
           /\ events = <<"EnterClear">>
           /\ buzzerPin = "LOW"

C2_Witness ==
    /\ CycleDone /\ intruder0 /\ distanceCm > 8000
    /\ Len(echoes) = NUM_SAMPLES /\ ~intruder

\* C3: an estimate of exactly 0 never triggers detection: from Clear the cycle
\* yields NoChange, stays Clear with the alert line LOW, and no cycle whose
\* estimate is 0 emits EnterDetected.
C3_ZeroNeverDetects ==
    (CycleDone /\ distanceCm = 0)
        => /\ CountOf("EnterDetected", events) = 0
           /\ ~intruder0 => /\ Result = "NoChange"
                            /\ ~intruder
                            /\ buzzer0 = "LOW"
                            /\ buzzerPin = "LOW"

C3_Witness ==
    /\ CycleDone /\ distanceCm = 0 /\ ~intruder0
    /\ Len(echoes) = NUM_SAMPLES /\ ~AllTimedOut(echoes)

\* C4: after n >= 1 consecutive cycles fed the same estimate d, 6 < d < 8 cm,
\* every one of them has yielded NoChange and the state and the alert level are
\* those from before the n cycles; Clear, then 5, then 7 leaves Detected and HIGH.
C4_BandHoldsState ==
    /\ (CycleDone /\ runLen >= 1)
          => /\ Result = "NoChange"
             /\ intruder = runIntruder
             /\ buzzerPin = runBuzzer
    /\ (CycleDone /\ distanceCm = 7000 /\ PrevWas(5000, FALSE))
          => /\ Result = "NoChange"
             /\ intruder
             /\ buzzerPin = "HIGH"

C4_Witness ==
    /\ CycleDone /\ runLen >= 2 /\ runIntruder /\ intruder
    /\ distanceCm = 7000 /\ buzzerPin = "HIGH"

\* C5: the comparisons are strict: exactly 6 cm from Clear and exactly 8 cm from
\* Detected both yield NoChange and leave the state and the alert line as they
\* were.
C5_StrictThresholds ==
    /\ (CycleDone /\ ~intruder0 /\ distanceCm = 6000)
          => /\ Result = "NoChange" /\ ~intruder /\ buzzerPin = buzzer0
    /\ (CycleDone /\ intruder0 /\ distanceCm = 8000)
          => /\ Result = "NoChange" /\ intruder /\ buzzerPin = buzzer0

C5_Witness ==
    /\ CycleDone /\ intruder0 /\ distanceCm = 8000 /\ buzzerPin = "HIGH"
    /\ Len(past) >= 2
    /\ past[Len(past) - 1] = <<6000, FALSE>>
    /\ past[Len(past)] = <<5000, FALSE>>

\* C6: after setup() the alert line is HIGH exactly when intruder is true and
\* LOW exactly when it is false, and setup() leaves intruder false, line LOW.
C6_AlertFollowsState ==
    /\ pc # "setup" => /\ buzzerPin = "HIGH" <=> intruder
                       /\ buzzerPin = "LOW" <=> ~intruder
    /\ (pc = "loop" /\ buzzer0 = "Z") => (~intruder /\ buzzerPin = "LOW")

C6_Witness ==
    /\ CycleDone /\ intruder /\ buzzerPin = "HIGH" /\ intruder0
    /\ Len(echoes) = NUM_SAMPLES

C8_TotalLossIsZero ==
    (Returned /\ AllTimedOut(echoes))
        => /\ distanceCm = 0
           /\ CycleDone => CountOf("EnterDetected", events) = 0

C8_Witness ==
    CycleDone /\ Len(echoes) = NUM_SAMPLES /\ AllTimedOut(echoes) /\ intruder

\* C9: getDistanceCm() returns 0 only if all 5 echoes timed out; with at least
\* one positive duration the estimate is positive.
C9_ZeroOnlyIfAllTimedOut ==
    (Returned /\ distanceCm = 0) => AllTimedOut(echoes)

\* C10: a cycle that starts in Clear and whose valid echoes each correspond, on
\* their own, to 6 cm or more emits no EnterDetected, however many of the other
\* sub-samples timed out.
C10_TimeoutsGiveNoDetection ==
    (CycleDone /\ Len(echoes) = NUM_SAMPLES /\ ~intruder0 /\ AllValidFar(echoes))
        => CountOf("EnterDetected", events) = 0

\* C11: the running sum never goes negative and never exceeds 5 * 30000 =
\* 150000 (so it never wraps a 32-bit long), and the estimate is never negative.
C11_EstimateNonNegative ==
    /\ sum >= 0
    /\ sum <= 150000
    /\ distanceCm >= 0

C11_Witness ==
    Returned /\ sum = 150000 /\ distanceCm = 510000 /\ intruder0 /\ ~intruder

\* the transition table of the detector: event, next flag and alert level as a
\* function of the estimate and the flag at the start of the cycle only
TableEvent(d, det) ==
    CASE ~det /\ d > 0 /\ d < 6000 -> "EnterDetected"
      [] det /\ d > 8000           -> "EnterClear"
      [] OTHER                     -> "NoChange"

TableFlag(d, det) ==
    CASE ~det /\ d > 0 /\ d < 6000 -> TRUE
      [] det /\ d > 8000           -> FALSE
      [] OTHER                     -> det

BuzzerWritten == \E k \in 1..Len(io) : io[k] \in {"buzzer:HIGH", "buzzer:LOW"}

\* C12: a cycle whose outcome is NoChange leaves intruder as it was and does
\* not write the alert pin; event, next flag and alert level of every cycle
\* are the table's function of (estimate, flag at the start of the cycle),
\* whatever estimates were fed before.
C12_PureStep ==
    /\ (CycleDone /\ Result = "NoChange")
          => /\ intruder = intruder0
             /\ buzzerPin = buzzer0
             /\ ~BuzzerWritten
    /\ CycleDone
          => /\ Result = TableEvent(distanceCm, intruder0)
             /\ intruder = TableFlag(distanceCm, intruder0)
             /\ buzzerPin = IF TableFlag(distanceCm, intruder0) THEN "HIGH" ELSE "LOW"

C12_Witness ==
    /\ CycleDone /\ Result = "NoChange" /\ intruder0 /\ distanceCm = 0
    /\ intruder /\ ~BuzzerWritten
    /\ past = << <<5000, FALSE>>, <<7000, TRUE>> >>

\* the calls of this cycle, in order: sampler entered, sampler returned, step run
IsCall(e) == e \in {"getDistanceCm", "return", "detect"}
Calls == SelectSeq(io, IsCall)

IsPrefix(a, b) == Len(a) <= Len(b) /\ SubSeq(b, 1, Len(a)) = a

\* C13: in every cycle the sampler runs once and then the step runs once (never
\* the step first, never either twice), at most one event is emitted, and
\* intruder changes only in the step of a cycle that has emitted nothing yet.
C13_OncePerCycle ==
    /\ [](/\ IsPrefix(Calls, <<"getDistanceCm", "return", "detect">>)
          /\ CycleDone => Calls = <<"getDistanceCm", "return", "detect">>
          /\ Len(events) <= 1)
    /\ [][intruder' # intruder
             => /\ pc = "detect" /\ events = <<>>
                /\ Len(events') = 1]_vars

C13_Witness ==
    /\ CycleDone /\ Calls = <<"getDistanceCm", "return", "detect">>
    /\ events = <<"EnterClear">> /\ Len(echoes) = NUM_SAMPLES /\ Len(io) = 24

\* C14: getDistanceCm() returns after exactly 5 sub-samples, every finished
\* cycle, whatever its echoes and outcome, is followed by the start of a new
\* sampling cycle, and echo measurements recur for ever.
C14_SamplingRecurs ==
    /\ [](pc = "average" => i = NUM_SAMPLES /\ Len(echoes) = NUM_SAMPLES)
    /\ (CycleDone ~> (pc = "pulseIn" /\ i = 0))
    /\ []<>(pc = "pulseIn")

C14_Witness ==
    /\ pc = "pulseIn" /\ i = 0 /\ echoes = <<>>
    /\ intruder /\ distanceCm = 0 /\ lastEvent = "EnterDetected"

\* the summary of all finished cycles, the current one included once its step
\* has run
Total ==
    IF pc \in {"sleep", "loop"} /\ buzzer0 # "Z"
    THEN Fold(trend, distanceCm, intruder0, events, buzzer0, buzzerPin)
    ELSE trend

\* C15: while no estimate has been in (0, 6) no EnterDetected has occurred,
\* while no estimate has exceeded 8 no EnterClear has occurred, and over any
\* stretch of cycles whose estimates are all >= 6, or all <= 8, the alert
\* output changes at most once.
C15_NoAlternation ==
    /\ ~Total.sawNear => ~Total.det
    /\ ~Total.sawFar => ~Total.clr
    /\ Total.chgGe6 <= 1
    /\ Total.chgLe8 <= 1

C15_Witness ==
    /\ CycleDone /\ distanceCm = 8001 /\ ~intruder
    /\ past = << <<8001, TRUE>>, <<7999, FALSE>> >>
    /\ Total.chgGe6 = 1 /\ Total.det /\ Total.clr

ValidCount(seq) == Cardinality({k \in 1..Len(seq) : seq[k] > 0})

\* the echoes with sub-sample j timed out instead
Zeroed(seq, j) == [seq EXCEPT ![j] = 0]

\* C16: with k >= 1 valid echoes the estimate is at most the mean of the k
\* valid durations converted to distance (estimate * k <= S * 17), and turning
\* any valid echo into a timeout never gives a larger estimate.
C16_TimeoutsBiasLow ==
    (Returned /\ ValidCount(echoes) >= 1)
        => /\ distanceCm * ValidCount(echoes) <= SumPositive(echoes) * 17
           /\ \A j \in 1..Len(echoes) :
                 echoes[j] > 0 => GetDistanceCm(Zeroed(echoes, j)) <= distanceCm

C16_Witness ==
    /\ Returned /\ ValidCount(echoes) = 3 /\ distanceCm > 0
    /\ distanceCm * 3 < SumPositive(echoes) * 17
    /\ \E j \in 1..Len(echoes) :
          echoes[j] > 0 /\ GetDistanceCm(Zeroed(echoes, j)) < distanceCm

\* C17: after any number n >= 1 of consecutive cycles with an estimate of 0
\* that began in Detected, each of them has yielded NoChange and the state is
\* still Detected with the alert HIGH; Detected and the HIGH level are left
\* only by the step of a cycle whose estimate exceeds 8.
C17_LossKeepsAlert ==
    /\ []((CycleDone /\ Total.lossRun >= 1 /\ Total.lossDet)
            => /\ Result = "NoChange"
               /\ intruder
               /\ buzzerPin = "HIGH")
    /\ [][((intruder /\ ~intruder') \/ (buzzerPin = "HIGH" /\ buzzerPin' # "HIGH"))
             => (pc = "detect" /\ distanceCm > 8000)]_vars

C17_Witness ==
    /\ CycleDone /\ distanceCm = 0 /\ Total.lossRun = 2 /\ Total.lossDet
    /\ intruder /\ buzzerPin = "HIGH"

\* the log of one complete call of getDistanceCm(): 5 times LOW, HIGH, LOW,
\* echo measurement
IsSampling(e) == e \in {"trig:LOW", "trig:HIGH", "pulseIn"}
Sampling == SelectSeq(io, IsSampling)

FivePulses ==
    [k \in 1..20 |-> CASE k % 4 = 1 -> "trig:LOW"
                       [] k % 4 = 2 -> "trig:HIGH"
                       [] k % 4 = 3 -> "trig:LOW"
                       [] OTHER     -> "pulseIn"]

\* C18: each sub-sample drives the trigger line LOW, HIGH, LOW in that order
\* and only then measures the echo, so the line is LOW during every echo
\* measurement and when getDistanceCm() returns, and a call makes exactly 5
\* HIGH pulses.
C18_TriggerPulse ==
    /\ IsPrefix(Sampling, FivePulses)
    /\ pc = "pulseIn"
          => /\ trigPin = "LOW"
             /\ Len(Sampling) % 4 = 3
    /\ pc \in {"average", "detect"}
          => /\ trigPin = "LOW"
             /\ Sampling = FivePulses
             /\ CountOf("trig:HIGH", io) = 5

C18_Witness ==
    /\ pc = "detect" /\ trigPin = "LOW" /\ Sampling = FivePulses
    /\ AllTimedOut(echoes) /\ Len(echoes) = NUM_SAMPLES

\* C19: after a cycle whose estimate is in (0, 6) the state is Detected and the
\* alert HIGH, after a cycle whose estimate exceeds 8 the state is Clear and the
\* alert LOW, whichever state the cycle started in.
C19_OutOfBandDecides ==
    /\ (CycleDone /\ distanceCm > 0 /\ distanceCm < 6000)
          => (intruder /\ buzzerPin = "HIGH")
    /\ (CycleDone /\ distanceCm > 8000)
          => (~intruder /\ buzzerPin = "LOW")

C19_Witness ==
    /\ CycleDone /\ distanceCm > 0 /\ distanceCm < 6000 /\ intruder0
    /\ events = <<>> /\ intruder /\ Len(echoes) = NUM_SAMPLES

\* C20: every event emitted differs from the event emitted last before it, the
\* first event after startup is EnterDetected, and every write to the alert
\* pin made by loop() changes the pin's level.
C20_EventsAlternate ==
    [][pc = "detect"
         => /\ Len(events') > Len(events)
                => /\ events'[Len(events')] # lastEvent
                   /\ lastEvent = "none" => events'[Len(events')] = "EnterDetected"
            /\ \A k \in (Len(io) + 1)..Len(io') :
                  /\ io'[k] = "buzzer:HIGH" => (buzzerPin = "LOW" /\ buzzerPin' = "HIGH")
                  /\ io'[k] = "buzzer:LOW" => (buzzerPin = "HIGH" /\ buzzerPin' = "LOW")]_vars

C20_Witness ==
    /\ CycleDone /\ events = <<"EnterDetected">> /\ lastEvent = "EnterDetected"
    /\ trend.det /\ trend.clr /\ io[Len(io)] = "buzzer:HIGH"

====
